---- MODULE Spec2Model ----
(***************************************************************************)
(* Model of add_adsorbate.py: the adsorption-site generator for prebuilt   *)
(* HEA slabs.  Lengths are integers in sixths of the lattice spacing, and  *)
(* atoms sit on multiples of 6, so that vec/2 and (v12+v13)/3 are exact.   *)
(* Atom indices and list positions are 1-based here (0-based in Python).   *)
(***************************************************************************)
EXTENDS Integers, Sequences, FiniteSets, TLC

\* ------------------------------------------------------------------ bounds
MaxAtoms == 4       \* atoms per slab
MaxFiles == 2       \* directory entries of a batch run

\* ------------------------------------------------------------- structures
\* Input slabs: atoms on a 3 x 3 x 2 grid of spacing 6 inside an orthorhombic,
\* axis-aligned cell of 18 x 18 x 24, so that x (or y) = 0 and 12 are
\* neighbours across the cell boundary and a vacuum separates the slab from
\* its image along z.
Coords  == {0, 6, 12}
Heights == {0, 6}
CellOf  == <<18, 18, 24>>

Points == Coords \X Coords \X Heights

\* rank of a grid point: slabs list their atoms in increasing rank
Rank(p) == (p[1] * 100 + p[2]) * 100 + p[3]

\* pbc as read(): a .vasp file is periodic on all axes, an .xyz file either
\* carries no cell or an extended-xyz pbc setting
PbcChoices == {<<TRUE, TRUE, TRUE>>, <<TRUE, TRUE, FALSE>>, <<FALSE, FALSE, FALSE>>}

\* the points of a set as a list, in increasing rank
RECURSIVE ByRank(_)
ByRank(S) ==
    IF S = {} THEN <<>>
    ELSE LET m == CHOOSE p \in S : \A q \in S : Rank(p) <= Rank(q)
         IN  <<m>> \o ByRank(S \ {m})

\* the lists of 1..n distinct points of P, in increasing rank
PosLists(P, n) == {ByRank(S) : S \in {T \in SUBSET P : Cardinality(T) \in 1..n}}

MkSlab(ps, pbc) == [pos |-> ps, sym |-> [i \in 1..Len(ps) |-> "Pt"], pbc |-> pbc, cell |-> CellOf]

SlabsOf(P, n) == {MkSlab(ps, pbc) : ps \in PosLists(P, n), pbc \in PbcChoices}

\* ------------------------------------------------------------- arithmetic
Max2(a, b) == IF a >= b THEN a ELSE b
Max3(a, b, c) == Max2(a, Max2(b, c))
Norm2(v) == v[1] * v[1] + v[2] * v[2] + v[3] * v[3]
Sub(a, b) == <<a[1] - b[1], a[2] - b[2], a[3] - b[3]>>
Add(a, b) == <<a[1] + b[1], a[2] + b[2], a[3] + b[3]>>
Scale(k, a) == <<k * a[1], k * a[2], k * a[3]>>
\* vec/2 and vec/3 of vectors whose components are multiples of 6
Half(a) == <<a[1] \div 2, a[2] \div 2, a[3] \div 2>>
Third(a) == <<a[1] \div 3, a[2] \div 3, a[3] \div 3>>

\* d <= dist_thr for the Euclidean length d = sqrt(d2)
WithinThr(d2, thr) == thr >= 0 /\ d2 <= thr * thr

\* ---------------------------------------------------------------- find_mic
\* ase.geometry.find_mic for an orthorhombic cell, in exact arithmetic.
\* wrap_positions: the component of a periodic axis is wrapped into [0, L)
Wrap(v, cell, pbc) == [a \in 1..3 |-> IF pbc[a] THEN v[a] % cell[a] ELSE v[a]]

\* the lattice translations general_find_mic tries: (0,0,0) first, then the
\* product of -1..1 over the periodic axes (0 alone on the others), in the
\* order itertools.product yields them; argmin keeps the first minimum
HklOrder(h) == IF h = <<0, 0, 0>> THEN 0 ELSE 1 + (h[1] + 1) * 9 + (h[2] + 1) * 3 + (h[3] + 1)
HklRange(p) == IF p THEN {-1, 0, 1} ELSE {0}
Hkls(pbc) == HklRange(pbc[1]) \X HklRange(pbc[2]) \X HklRange(pbc[3])
Shifted(w, h, cell) == <<w[1] + h[1] * cell[1], w[2] + h[2] * cell[2], w[3] + h[3] * cell[3]>>

general_find_mic(v, cell, pbc) ==
    LET w == Wrap(v, cell, pbc)
        best == CHOOSE h \in Hkls(pbc) :
                    \A g \in Hkls(pbc) :
                        \/ Norm2(Shifted(w, h, cell)) < Norm2(Shifted(w, g, cell))
                        \/ /\ Norm2(Shifted(w, h, cell)) = Norm2(Shifted(w, g, cell))
                           /\ HklOrder(h) <= HklOrder(g)
    IN  Shifted(w, best, cell)

\* find_mic returns (vec, d); the model keeps vec, and d*d is Norm2(vec).
\* With no periodic axis the vector is returned unchanged.  (The naive branch
\* of find_mic is taken only when its result is shorter than half the
\* shortest cell edge, where it is the unique minimum general_find_mic finds.)
\* general_find_mic tabulated over the displacements between grid points
\* (every slab has the cell CellOf)
Displacements == {Sub(p, q) : p, q \in Points}
MicTable == [v \in Displacements, pbc \in PbcChoices |-> general_find_mic(v, CellOf, pbc)]

\* (variant: the direct displacement, no minimum image)
find_mic_direct(v, cell, pbc) == v

find_mic(v, cell, pbc) ==
    IF pbc[1] \/ pbc[2] \/ pbc[3] THEN MicTable[v, pbc] ELSE v

\* ------------------------------------------------ generate_adsorption_sites
normal == <<0, 0, 1>>

Site(kind, idx, p6) == [kind |-> kind, idx |-> idx, pos |-> p6]

\* site = pos[idx] + normal*ads_dist, kept if site[2] > bz + margin
TopSite(slab, idx, ads_dist) ==
    Add(slab.pos[idx], Scale(ads_dist, normal))

RECURSIVE TopLoop(_, _, _, _, _)
TopLoop(slab, surface_atoms, i, ads_dist, margin) ==
    IF i > Len(surface_atoms) THEN <<>>
    ELSE LET idx  == surface_atoms[i]
             bz   == slab.pos[idx][3]
             site == TopSite(slab, idx, ads_dist)
         IN  (IF site[3] > bz + margin
              THEN <<Site("Top", <<idx>>, site)>> ELSE <<>>)
             \o TopLoop(slab, surface_atoms, i + 1, ads_dist, margin)

\* midpoint = pos[idx1] + vec/2 ; site = midpoint + normal*ads_dist
BridgeSite(p1, vec, ads_dist) == Add(Add(p1, Half(vec)), Scale(ads_dist, normal))

\* (variant: the height test looks at the first atom only)
BridgeStepFirstAtomHeight(slab, idx1, idx2, ads_dist, dist_thr, margin) ==
    LET vec  == find_mic(Sub(slab.pos[idx2], slab.pos[idx1]), slab.cell, slab.pbc)
        site == BridgeSite(slab.pos[idx1], vec, ads_dist)
    IN  IF WithinThr(Norm2(vec), dist_thr)
        THEN IF site[3] > slab.pos[idx1][3] + margin
             THEN <<Site("Bridge", <<idx1, idx2>>, site)>> ELSE <<>>
        ELSE <<>>

BridgeStep(slab, idx1, idx2, ads_dist, dist_thr, margin) ==
    LET vec  == find_mic(Sub(slab.pos[idx2], slab.pos[idx1]), slab.cell, slab.pbc)
        site == BridgeSite(slab.pos[idx1], vec, ads_dist)
    IN  IF WithinThr(Norm2(vec), dist_thr)
        THEN IF site[3] > Max2(slab.pos[idx1][3], slab.pos[idx2][3]) + margin
             THEN <<Site("Bridge", <<idx1, idx2>>, site)>> ELSE <<>>
        ELSE <<>>

\* for i, idx1 in enumerate(surface_atoms): for idx2 in surface_atoms[i+1:]
RECURSIVE BridgeLoop(_, _, _, _, _, _, _)
BridgeLoop(slab, surface_atoms, i, j, ads_dist, dist_thr, margin) ==
    IF i > Len(surface_atoms) THEN <<>>
    ELSE IF j > Len(surface_atoms)
         THEN BridgeLoop(slab, surface_atoms, i + 1, i + 2, ads_dist, dist_thr, margin)
         ELSE BridgeStep(slab, surface_atoms[i], surface_atoms[j], ads_dist, dist_thr, margin)
              \o BridgeLoop(slab, surface_atoms, i, j + 1, ads_dist, dist_thr, margin)

\* centroid = pos[idx1] + (v12 + v13)/3 ; site = centroid + normal*ads_dist
HollowSite(p1, v12, v13, ads_dist) == Add(Add(p1, Third(Add(v12, v13))), Scale(ads_dist, normal))

\* (variant: the leg idx2-idx3 is not tested)
HollowStepTwoLegs(slab, idx1, idx2, idx3, ads_dist, dist_thr, margin) ==
    LET v12  == find_mic(Sub(slab.pos[idx2], slab.pos[idx1]), slab.cell, slab.pbc)
        v13  == find_mic(Sub(slab.pos[idx3], slab.pos[idx1]), slab.cell, slab.pbc)
        site == HollowSite(slab.pos[idx1], v12, v13, ads_dist)
    IN  IF /\ WithinThr(Norm2(v12), dist_thr)
           /\ WithinThr(Norm2(v13), dist_thr)
        THEN IF site[3] > Max3(slab.pos[idx1][3], slab.pos[idx2][3], slab.pos[idx3][3]) + margin
             THEN <<Site("Hollow", <<idx1, idx2, idx3>>, site)>> ELSE <<>>
        ELSE <<>>

HollowStep(slab, idx1, idx2, idx3, ads_dist, dist_thr, margin) ==
    LET v12  == find_mic(Sub(slab.pos[idx2], slab.pos[idx1]), slab.cell, slab.pbc)
        v13  == find_mic(Sub(slab.pos[idx3], slab.pos[idx1]), slab.cell, slab.pbc)
        v23  == find_mic(Sub(slab.pos[idx3], slab.pos[idx2]), slab.cell, slab.pbc)
        site == HollowSite(slab.pos[idx1], v12, v13, ads_dist)
    IN  IF /\ WithinThr(Norm2(v12), dist_thr)
           /\ WithinThr(Norm2(v13), dist_thr)
           /\ WithinThr(Norm2(v23), dist_thr)
        THEN IF site[3] > Max3(slab.pos[idx1][3], slab.pos[idx2][3], slab.pos[idx3][3]) + margin
             THEN <<Site("Hollow", <<idx1, idx2, idx3>>, site)>> ELSE <<>>
        ELSE <<>>

\* for i in range(n): for j in range(i+1, n): for k in range(j+1, n)
RECURSIVE HollowLoop(_, _, _, _, _, _, _, _)
HollowLoop(slab, surface_atoms, i, j, k, ads_dist, dist_thr, margin) ==
    LET n == Len(surface_atoms)
    IN  IF i > n THEN <<>>
        ELSE IF j > n
             THEN HollowLoop(slab, surface_atoms, i + 1, i + 2, i + 3, ads_dist, dist_thr, margin)
             ELSE IF k > n
                  THEN HollowLoop(slab, surface_atoms, i, j + 1, j + 2, ads_dist, dist_thr, margin)
                  ELSE HollowStep(slab, surface_atoms[i], surface_atoms[j], surface_atoms[k],
                                  ads_dist, dist_thr, margin)
                       \o HollowLoop(slab, surface_atoms, i, j, k + 1, ads_dist, dist_thr, margin)

\* (variant: a site is dropped when an earlier site has the same coordinates)
RECURSIVE DropRepeatedPositions(_, _)
DropRepeatedPositions(found, n) ==
    IF n > Len(found) THEN <<>>
    ELSE (IF \E m \in 1..(n - 1) : found[m].pos = found[n].pos THEN <<>> ELSE <<found[n]>>)
         \o DropRepeatedPositions(found, n + 1)

generate_adsorption_sites_dedup(slab, surface_atoms, ads_dist, dist_thr, margin) ==
    DropRepeatedPositions(
        TopLoop(slab, surface_atoms, 1, ads_dist, margin)
        \o BridgeLoop(slab, surface_atoms, 1, 2, ads_dist, dist_thr, margin)
        \o HollowLoop(slab, surface_atoms, 1, 2, 3, ads_dist, dist_thr, margin), 1)

generate_adsorption_sites(slab, surface_atoms, ads_dist, dist_thr, margin) ==
    TopLoop(slab, surface_atoms, 1, ads_dist, margin)
    \o BridgeLoop(slab, surface_atoms, 1, 2, ads_dist, dist_thr, margin)
    \o HollowLoop(slab, surface_atoms, 1, 2, 3, ads_dist, dist_thr, margin)

\* ------------------------------------------ identify_surface_atoms_via_hull
\* k-th smallest (k = 1..n) of the values of a sequence
KthSmallest(zs, k) ==
    CHOOSE v \in {zs[i] : i \in 1..Len(zs)} :
        /\ Cardinality({i \in 1..Len(zs) : zs[i] < v}) < k
        /\ Cardinality({i \in 1..Len(zs) : zs[i] <= v}) >= k

\* np.percentile rejects q outside [0, 100] with a ValueError
PercentileValid(q) == 0 <= q /\ q <= 100

\* np.percentile(zs, q), linear interpolation between order statistics, times
\* 100: the virtual index is (n-1)*q/100
Percentile100(zs, q) ==
    LET h  == (Len(zs) - 1) * q
        lo == h \div 100
        r  == h % 100
    IN  IF r = 0 THEN 100 * KthSmallest(zs, lo + 1)
        ELSE 100 * KthSmallest(zs, lo + 1)
             + r * (KthSmallest(zs, lo + 2) - KthSmallest(zs, lo + 1))

Zs(slab) == [i \in 1..Len(slab.pos) |-> slab.pos[i][3]]

\* the members of an index set, ascending (np.where(...)[0])
RECURSIVE Ascending(_)
Ascending(S) ==
    IF S = {} THEN <<>>
    ELSE LET m == CHOOSE x \in S : \A y \in S : x <= y
         IN  <<m>> \o Ascending(S \ {m})

\* cand = np.where(zs >= z_th)[0]
Candidates(slab, q) ==
    Ascending({i \in 1..Len(slab.pos) : 100 * slab.pos[i][3] >= Percentile100(Zs(slab), q)})

\* xy = pos[cand][:,:2]
ProjectXY(slab, cand) == [c \in 1..Len(cand) |-> <<slab.pos[cand[c]][1], slab.pos[cand[c]][2]>>]

\* twice the signed area of the triangle a, b, c: > 0 when c is left of a -> b
Cross(a, b, c) == (b[1] - a[1]) * (c[2] - a[2]) - (b[2] - a[2]) * (c[1] - a[1])

XYSet(xy) == {xy[c] : c \in 1..Len(xy)}

\* Qhull cannot build an initial simplex when every triple of points is flat
HullDegenerate(xy) == \A a, b, c \in XYSet(xy) : Cross(a, b, c) = 0

\* p lies in the closed triangle (or segment) spanned by a, b, c
InTriangle(p, a, b, c) ==
    LET d1 == Cross(a, b, p)
        d2 == Cross(b, c, p)
        d3 == Cross(c, a, p)
    IN  IF Cross(a, b, c) # 0
        THEN (d1 >= 0 /\ d2 >= 0 /\ d3 >= 0) \/ (d1 <= 0 /\ d2 <= 0 /\ d3 <= 0)
        ELSE \E u, w \in {a, b, c} :
                /\ Cross(u, w, p) = 0
                /\ (p[1] - u[1]) * (p[1] - w[1]) <= 0
                /\ (p[2] - u[2]) * (p[2] - w[2]) <= 0

\* the extreme points: those outside the hull of the other points
Extreme(P) == {p \in P : ~ \E a, b, c \in P \ {p} : InTriangle(p, a, b, c)}

\* the extreme points in counterclockwise order, starting from p
RECURSIVE CcwFrom(_, _, _)
CcwFrom(E, p, left) ==
    IF left = 0 THEN <<>>
    ELSE LET q == CHOOSE q \in E \ {p} : \A r \in E \ {p, q} : Cross(p, q, r) > 0
         IN  <<p>> \o CcwFrom(E, q, left - 1)

\* the index sequences that name one input point for each hull point
RECURSIVE IndexChoices(_, _, _)
IndexChoices(xy, pts, k) ==
    IF k > Len(pts) THEN {<<>>}
    ELSE {<<c>> \o t : c \in {d \in 1..Len(xy) : xy[d] = pts[k]},
                       t \in IndexChoices(xy, pts, k + 1)}

\* scipy.spatial.ConvexHull(xy).vertices for a point set that is not flat:
\* the hull's vertices in counterclockwise order.  Where the traversal starts,
\* and which of several coincident input points names a vertex, is Qhull's
\* choice: every possibility is an outcome.
HullVertices(xy) ==
    LET E == Extreme(XYSet(xy))
    IN  UNION {IndexChoices(xy, CcwFrom(E, p, Cardinality(E)), 1) : p \in E}

\* What a call can do: return a list (with or without the warning) or raise.
Returned(surf, warned) == [kind |-> "return", surf |-> surf, warned |-> warned, err |-> "none"]
Raised(e) == [kind |-> "raise", surf |-> <<>>, warned |-> FALSE, err |-> e]

\* (variant: hull.vertices is returned without indexing cand)
identify_surface_atoms_hull_positions(slab, percentile) ==
    IF ~PercentileValid(percentile) THEN {Raised("ValueError")}
    ELSE LET cand == Candidates(slab, percentile)
             xy   == ProjectXY(slab, cand)
         IN  IF Len(cand) < 3 THEN {Returned(cand, TRUE)}
             ELSE IF HullDegenerate(xy) THEN {Raised("QhullError")}
             ELSE {Returned(h, FALSE) : h \in HullVertices(xy)}

\* (variant: the fallback returns all atoms, as its log message says)
identify_surface_atoms_all_atoms(slab, percentile) ==
    IF ~PercentileValid(percentile) THEN {Raised("ValueError")}
    ELSE LET cand == Candidates(slab, percentile)
             xy   == ProjectXY(slab, cand)
         IN  IF Len(cand) < 3 THEN {Returned([i \in 1..Len(slab.pos) |-> i], TRUE)}
             ELSE IF HullDegenerate(xy) THEN {Raised("QhullError")}
             ELSE {Returned([v \in 1..Len(h) |-> cand[h[v]]], FALSE) : h \in HullVertices(xy)}

identify_surface_atoms_via_hull(slab, percentile) ==
    IF ~PercentileValid(percentile) THEN {Raised("ValueError")}
    ELSE LET cand == Candidates(slab, percentile)
             xy   == ProjectXY(slab, cand)
         IN  IF Len(cand) < 3 THEN {Returned(cand, TRUE)}
             ELSE IF HullDegenerate(xy) THEN {Raised("QhullError")}
             ELSE {Returned([v \in 1..Len(h) |-> cand[h[v]]], FALSE) : h \in HullVertices(xy)}

\* ------------------------------------------------- add_adsorbate_and_write
AppendAtom(s, ads, position) ==
    [s EXCEPT !.pos = Append(@, position), !.sym = Append(@, ads)]

\* (variant: the atom is appended to the caller's slab, without the copy)
add_adsorbate_in_place(s, position, ads) ==
    [source |-> AppendAtom(s, ads, position), written |-> AppendAtom(s, ads, position)]

\* slab2 = slab.copy(); slab2 += Atom(ads, position); write(fname, slab2):
\* the caller's slab after the call, and the structure written
add_adsorbate_and_write(s, position, ads) ==
    [source |-> s, written |-> AppendAtom(s, ads, position)]

\* ------------------------------------------------------------ align_slab_to_z
\* n = cell[0] x cell[1] for the cell rows (a,0,0), (0,b,0), (0,0,c)
CellNormal(s) == <<0, 0, s.cell[1] * s.cell[2]>>

\* angle <= 1e-6: the normal (flipped to n[2] >= 0) already points along +z,
\* and the slab is returned as it is
NoRotationNeeded(s) == CellNormal(s)[1] = 0 /\ CellNormal(s)[2] = 0 /\ CellNormal(s)[3] # 0

\* ---------------------------------------------------------------- state
VARIABLES
    args,     \* the parsed command line
    todo,     \* directory entries main() has not yet visited
    pc,       \* where main() is
    slab,     \* the slab of the current file
    surf,     \* identify_surface_atoms_via_hull's result
    warned,   \* whether it logged "Too few candidates"
    sites,    \* generate_adsorption_sites' result
    k,        \* the next site of the write loop
    out,      \* the structure last written to the output directory
    nout,     \* files written for the current input file
    src,      \* the slab as it was handed to generate_adsorption_sites
    err       \* the exception that ended the run, if any

vars == <<args, todo, pc, slab, surf, warned, sites, k, out, nout, src, err>>

NoSlab == [pos |-> <<>>, sym |-> <<>>, pbc |-> <<FALSE, FALSE, FALSE>>, cell |-> CellOf]

Args(q, a, t, m) ==
    [percentile |-> q, ads_dist |-> a, dist_thr |-> t, margin |-> m, adsorbate |-> "H"]

\* ------------------------------------------------------------------ main()
\* The slabs a batch run reads, and the command lines it is started with
\* (valid and invalid ones).
DriverSlabs == {s \in SlabsOf(Points, MaxAtoms - 1) : s.pbc[1] = s.pbc[3]}
DriverArgs ==
    {Args(q, 6, 12, 0) : q \in {0, 100, 120}} \cup {Args(0, 6, -6, 0), Args(0, 0, 12, -6)}

Fresh ==
    /\ slab = NoSlab /\ surf = <<>> /\ warned = FALSE /\ sites = <<>>
    /\ k = 0 /\ out = NoSlab /\ nout = 0 /\ src = NoSlab /\ err = "none"

Init ==
    /\ args \in DriverArgs
    /\ todo = MaxFiles
    /\ pc = "listdir"
    /\ Fresh

\* `continue` / the end of the loop body: on to the next directory entry.  The
\* locals of the iteration are dead from here on and are reset.
NextEntry ==
    /\ todo' = todo - 1
    /\ pc' = "listdir"
    /\ slab' = NoSlab /\ surf' = <<>> /\ warned' = FALSE /\ sites' = <<>>
    /\ k' = 0 /\ out' = NoSlab /\ nout' = 0 /\ src' = NoSlab
    /\ UNCHANGED <<args, err>>

\* the entry is neither a .vasp nor a .xyz file
SkipEntry == pc = "listdir" /\ todo > 0 /\ NextEntry

\* read(path) raises: the error is logged and the loop continues
ReadFails == pc = "listdir" /\ todo > 0 /\ NextEntry

ReadSlab ==
    /\ pc = "listdir" /\ todo > 0
    /\ \E s \in DriverSlabs : slab' = s
    /\ pc' = "read"
    /\ UNCHANGED <<args, todo, surf, warned, sites, k, out, nout, src, err>>

AlignSlab ==
    /\ pc = "read"
    /\ NoRotationNeeded(slab)
    /\ pc' = "aligned"
    /\ UNCHANGED <<args, todo, slab, surf, warned, sites, k, out, nout, src, err>>

\* surf = identify_surface_atoms_via_hull(...); an exception is not caught
SelectSurface ==
    /\ pc = "aligned"
    /\ \E o \in identify_surface_atoms_via_hull(slab, args.percentile) :
          IF o.kind = "raise"
          THEN /\ pc' = "crashed" /\ err' = o.err
               /\ UNCHANGED <<args, todo, slab, surf, warned, sites, k, out, nout, src>>
          ELSE /\ surf' = o.surf /\ warned' = o.warned
               /\ pc' = "selected"
               /\ UNCHANGED <<args, todo, slab, sites, k, out, nout, src, err>>

\* if not surf: continue -- otherwise the sites are generated
GenerateSites ==
    /\ pc = "selected"
    /\ IF surf = <<>>
       THEN NextEntry
       ELSE /\ sites' = generate_adsorption_sites(slab, surf, args.ads_dist, args.dist_thr, args.margin)
            /\ src' = slab
            /\ k' = 1
            /\ pc' = "writing"
            /\ UNCHANGED <<args, todo, slab, surf, warned, out, nout, err>>

\* one iteration of `for label, pos in sites`
WriteSite ==
    /\ pc = "writing" /\ k <= Len(sites)
    /\ LET r == add_adsorbate_and_write(slab, sites[k].pos, args.adsorbate)
       IN  slab' = r.source /\ out' = r.written
    /\ nout' = nout + 1
    /\ k' = k + 1
    /\ UNCHANGED <<args, todo, pc, surf, warned, sites, src, err>>

FileDone == pc = "writing" /\ k > Len(sites) /\ NextEntry

Finish ==
    /\ pc = "listdir" /\ todo = 0
    /\ pc' = "done"
    /\ UNCHANGED <<args, todo, slab, surf, warned, sites, k, out, nout, src, err>>

Next ==
    \/ SkipEntry \/ ReadFails \/ ReadSlab \/ AlignSlab \/ SelectSurface
    \/ GenerateSites \/ WriteSite \/ FileDone \/ Finish

Spec == Init /\ [][Next]_vars

\* ------------------------------- identify_surface_atoms_via_hull, called alone
SelSlabs == {s \in SlabsOf(Points, MaxAtoms) : s.pbc[1] /\ s.pbc[3]}
SelPercentiles == {0, 50, 70, 100, 120}

SelInit ==
    /\ slab \in SelSlabs
    /\ args \in {Args(q, 6, 12, 0) : q \in SelPercentiles}
    /\ todo = 0 /\ pc = "call"
    /\ surf = <<>> /\ warned = FALSE /\ sites = <<>>
    /\ k = 0 /\ out = NoSlab /\ nout = 0 /\ src = NoSlab /\ err = "none"

SelCall ==
    /\ pc = "call"
    /\ \E o \in identify_surface_atoms_via_hull(slab, args.percentile) :
          /\ surf' = o.surf /\ warned' = o.warned /\ err' = o.err
          /\ pc' = IF o.kind = "raise" THEN "raised" ELSE "returned"
    /\ UNCHANGED <<args, todo, slab, sites, k, out, nout, src>>

SelNext == SelCall

SelSpec == SelInit /\ [][SelNext]_vars

\* -------------------------------------- generate_adsorption_sites, called alone
Asc(n) == [i \in 1..n |-> i]
Desc(n) == [i \in 1..n |-> n + 1 - i]

\* surface atom lists: all atoms in ascending or descending index order, or
\* all but the first atom
SurfLists(n) == {Asc(n), Desc(n), Tail(Asc(n))} \ {<<>>}

\* slabs of two rows of the grid, with every pbc setting
GenPoints == {p \in Points : p[2] \in {0, 6}}
GenSlabs == SlabsOf(GenPoints, MaxAtoms)

\* ads_dist > 0, dist_thr >= 0, margin >= 0
GenArgs == {Args(0, 6, t, m) : t \in {6, 9, 12}, m \in {0, 3, 6}}

GenInit ==
    /\ slab \in GenSlabs
    /\ surf \in SurfLists(Len(slab.pos))
    /\ args \in GenArgs
    /\ todo = 0 /\ pc = "call"
    /\ warned = FALSE /\ sites = <<>>
    /\ k = 0 /\ out = NoSlab /\ nout = 0 /\ src = NoSlab /\ err = "none"

GenCall ==
    /\ pc = "call"
    /\ sites' = generate_adsorption_sites(slab, surf, args.ads_dist, args.dist_thr, args.margin)
    /\ pc' = "returned"
    /\ UNCHANGED <<args, todo, slab, surf, warned, k, out, nout, src, err>>

GenNext == GenCall

GenSpec == GenInit /\ [][GenNext]_vars

\* =================================================================== claims
\* Definitions the claims are stated with, independent of the code's own.

\* the squared minimum-image distance: along each periodic axis the shortest
\* of the displacement and its translates by one cell edge
AbsVal(x) == IF x < 0 THEN -x ELSE x
AxisMin(d, L, periodic) ==
    IF periodic
    THEN CHOOSE m \in {AbsVal(d + n * L) : n \in -1..1} : \A n \in -1..1 : m <= AbsVal(d + n * L)
    ELSE AbsVal(d)
MinImageDist2(p, q, cell, pbc) ==
    LET m == [a \in 1..3 |-> AxisMin(q[a] - p[a], cell[a], pbc[a])]
    IN  m[1] * m[1] + m[2] * m[2] + m[3] * m[3]

\* the minimum-image displacements from p to q: the translates of q - p by
\* lattice vectors along the periodic axes that have the minimum length
LatticeShifts(pbc) == {h \in (-1..1) \X (-1..1) \X (-1..1) : \A a \in 1..3 : pbc[a] \/ h[a] = 0}
MinImageVectors(p, q, cell, pbc) ==
    LET least == MinImageDist2(p, q, cell, pbc)
    IN  {v \in {Add(Sub(q, p), <<h[1] * cell[1], h[2] * cell[2], h[3] * cell[3]>>) : h \in LatticeShifts(pbc)} :
            Norm2(v) = least}

\* both, tabulated over the displacements between grid points of a slab's cell
MinDistTable ==
    [v \in Displacements, pbc \in PbcChoices |-> MinImageDist2(<<0, 0, 0>>, v, CellOf, pbc)]
MinVecTable ==
    [v \in Displacements, pbc \in PbcChoices |-> MinImageVectors(<<0, 0, 0>>, v, CellOf, pbc)]

Exceeds(d2, thr) == thr < 0 \/ d2 > thr * thr

SiteSet == {sites[n] : n \in 1..Len(sites)}
ZOf(i) == slab.pos[i][3]
Called == pc = "returned"

Dist2Between(i, j) == MinDistTable[Sub(slab.pos[j], slab.pos[i]), slab.pbc]
VectorsBetween(i, j) == MinVecTable[Sub(slab.pos[j], slab.pos[i]), slab.pbc]
TooFar(i, j) == Exceeds(Dist2Between(i, j), args.dist_thr)

\* C2: a returned Bridge site never belongs to a pair whose minimum-image
\* distance exceeds dist_thr, and a returned Hollow site never to a triple
\* one of whose three pairwise minimum-image distances exceeds dist_thr.
C2_DistanceGating ==
    Called =>
        \A s \in SiteSet :
            /\ s.kind = "Bridge" => ~TooFar(s.idx[1], s.idx[2])
            /\ s.kind = "Hollow" =>
                   ~TooFar(s.idx[1], s.idx[2]) /\ ~TooFar(s.idx[1], s.idx[3]) /\ ~TooFar(s.idx[2], s.idx[3])

\* a triple of listed atoms with two legs within dist_thr and the third too
\* far, next to sites that were generated
C2_Witness ==
    /\ Called
    /\ \E s \in SiteSet : s.kind = "Hollow"
    /\ \E a, b, c \in 1..Len(surf) :
          /\ a < b /\ b < c
          /\ ~TooFar(surf[a], surf[b]) /\ ~TooFar(surf[a], surf[c]) /\ TooFar(surf[b], surf[c])

MaxZ(idx) == CHOOSE z \in {ZOf(idx[n]) : n \in 1..Len(idx)} : \A n \in 1..Len(idx) : z >= ZOf(idx[n])

\* C3: every returned site lies strictly higher than the highest of its
\* contributing atoms plus margin; with ads_dist <= margin there is no Top site.
C3_MarginLaw ==
    Called =>
        /\ \A s \in SiteSet : s.pos[3] > MaxZ(s.idx) + args.margin
        /\ args.ads_dist <= args.margin => \A s \in SiteSet : s.kind # "Top"

\* with a positive margin a Bridge site of a level pair was kept while a pair
\* of different heights, close enough, has none
C3_Witness ==
    /\ Called
    /\ args.margin > 0
    /\ \E s \in SiteSet : s.kind = "Bridge"
    /\ \E a, b \in 1..Len(surf) :
          /\ a < b
          /\ ~TooFar(surf[a], surf[b])
          /\ ZOf(surf[a]) # ZOf(surf[b])
          /\ \A s \in SiteSet : s.idx # <<surf[a], surf[b]>>

PosIn(i) == CHOOSE n \in 1..Len(surf) : surf[n] = i
KindRank(kind) == CASE kind = "Top" -> 1 [] kind = "Bridge" -> 2 [] kind = "Hollow" -> 3
PosTuple(s) == [n \in 1..Len(s.idx) |-> PosIn(s.idx[n])]

LexLess(u, w) ==
    \E n \in 1..Len(u) : u[n] < w[n] /\ \A m \in 1..(n - 1) : u[m] = w[m]

Before(s, t) ==
    \/ KindRank(s.kind) < KindRank(t.kind)
    \/ s.kind = t.kind /\ LexLess(PosTuple(s), PosTuple(t))

\* the z component of the minimum-image displacement between two atoms
MinZ(i, j) == (CHOOSE v \in VectorsBetween(i, j) : TRUE)[3]

QualTop(i) == args.ads_dist > args.margin
QualBridge(i, j) ==
    /\ ~TooFar(i, j)
    /\ 2 * ZOf(i) + MinZ(i, j) + 2 * args.ads_dist > 2 * (MaxZ(<<i, j>>) + args.margin)
QualHollow(i, j, l) ==
    /\ ~TooFar(i, j) /\ ~TooFar(i, l) /\ ~TooFar(j, l)
    /\ 3 * ZOf(i) + MinZ(i, j) + MinZ(i, l) + 3 * args.ads_dist > 3 * (MaxZ(<<i, j, l>>) + args.margin)

Expected ==
    LET N == 1..Len(surf)
    IN  {<<"Top", <<surf[a]>>>> : a \in {a \in N : QualTop(surf[a])}}
        \cup {<<"Bridge", <<surf[c[1]], surf[c[2]]>>>> :
                 c \in {c \in N \X N : c[1] < c[2] /\ QualBridge(surf[c[1]], surf[c[2]])}}
        \cup {<<"Hollow", <<surf[c[1]], surf[c[2]], surf[c[3]]>>>> :
                 c \in {c \in N \X N \X N :
                           c[1] < c[2] /\ c[2] < c[3] /\ QualHollow(surf[c[1]], surf[c[2]], surf[c[3]])}}

\* C7: the returned list is all Top sites, then all Bridge sites, then all
\* Hollow sites; within a pass the sites follow the list positions of their
\* atoms (ascending singles, lexicographic pairs i<j and triples i<j<k); every
\* qualifying combination of list positions has exactly one site, sites that
\* share their coordinates included.
C7_OrderAndCompleteness ==
    Called =>
        /\ \A m, n \in 1..Len(sites) : m < n => Before(sites[m], sites[n])
        /\ \A s \in SiteSet : \A n \in 1..(Len(s.idx) - 1) : PosIn(s.idx[n]) < PosIn(s.idx[n + 1])
        /\ {<<s.kind, s.idx>> : s \in SiteSet} = Expected
        /\ Len(sites) = Cardinality(Expected)

\* two sites with the same coordinates are both in the list, in a list with
\* several sites of every kind
C7_Witness ==
    /\ Called
    /\ \E m, n \in 1..Len(sites) : m < n /\ sites[m].pos = sites[n].pos
    /\ \E m, n \in 1..Len(sites) : m < n /\ sites[m].kind = "Hollow" /\ sites[n].kind = "Hollow"
    /\ surf # Asc(Len(surf))

Lift(a) == <<0, 0, a>>

\* C8: a Bridge site of the pair (i, j) is pos[i] + v/2 + ads_dist*z for a
\* minimum-image displacement v from i to j (a translate of pos[j] - pos[i]
\* along periodic axes only); when the minimum-image distance is shorter than
\* the direct distance it is not the naive midpoint (pos[i]+pos[j])/2 + ads_dist*z.
C8_BridgeUsesMinimumImage ==
    Called =>
        \A s \in SiteSet :
            s.kind = "Bridge" =>
                LET pi == slab.pos[s.idx[1]]
                    pj == slab.pos[s.idx[2]]
                IN  /\ \E v \in VectorsBetween(s.idx[1], s.idx[2]) :
                          Scale(2, Sub(Sub(s.pos, pi), Lift(args.ads_dist))) = v
                    /\ Dist2Between(s.idx[1], s.idx[2]) < Norm2(Sub(pj, pi))
                          => Scale(2, s.pos) # Add(Add(pi, pj), Lift(2 * args.ads_dist))

\* a Bridge site of a pair that is closer across the cell boundary than directly
C8_Witness ==
    /\ Called
    /\ \E s \in SiteSet :
          /\ s.kind = "Bridge"
          /\ Dist2Between(s.idx[1], s.idx[2]) < Norm2(Sub(slab.pos[s.idx[2]], slab.pos[s.idx[1]]))
    /\ slab.pbc = <<TRUE, TRUE, FALSE>>

SameUpToLattice(p, q, cell, pbc) ==
    \A a \in 1..3 : IF pbc[a] THEN (p[a] - q[a]) % cell[a] = 0 ELSE p[a] = q[a]

\* C10: for a Hollow site of the triple (i, j, k) the images pos[i], pos[i]+v_ij
\* and pos[i]+v_ik are mutually nearest images (v_ik - v_ij = v_jk), and the
\* site is, up to a lattice translation, the one obtained with j as the origin.
C10_HollowImagesConsistent ==
    Called =>
        \A s \in SiteSet :
            s.kind = "Hollow" =>
                LET p1  == slab.pos[s.idx[1]]
                    p2  == slab.pos[s.idx[2]]
                    p3  == slab.pos[s.idx[3]]
                    v12 == find_mic(Sub(p2, p1), slab.cell, slab.pbc)
                    v13 == find_mic(Sub(p3, p1), slab.cell, slab.pbc)
                    v21 == find_mic(Sub(p1, p2), slab.cell, slab.pbc)
                    v23 == find_mic(Sub(p3, p2), slab.cell, slab.pbc)
                IN  /\ Sub(v13, v12) = v23
                    /\ SameUpToLattice(s.pos, HollowSite(p2, v21, v23, args.ads_dist), slab.cell, slab.pbc)

\* ------------------------------------------------ surface selection, driver
Range(f) == {f[n] : n \in 1..Len(f)}
XYOf(i) == <<slab.pos[i][1], slab.pos[i][2]>>

\* the candidate set {i : z_i >= z_th} and its (x, y) projections
CandSet == {i \in 1..Len(slab.pos) : 100 * ZOf(i) >= Percentile100(Zs(slab), args.percentile)}
CandXY == {XYOf(i) : i \in CandSet}

\* a -> b is a counterclockwise boundary edge of the convex hull of P
HullEdge(a, b, P) == a # b /\ \A r \in P : Cross(a, b, r) >= 0
\* p lies strictly inside the convex hull of P
StrictlyInside(p, P) == \A a, b \in P : HullEdge(a, b, P) => Cross(a, b, p) > 0
Flat(P) == \A a, b, c \in P : Cross(a, b, c) = 0

\* C4: the returned indices are candidates; when there are 3 or more
\* candidates and the hull is computed, at least 3 atoms are returned and
\* none of them projects strictly inside the hull of the candidates.
C4_HullSubsetAndBoundary ==
    pc = "returned" =>
        /\ Range(surf) \subseteq CandSet
        /\ Cardinality(CandSet) >= 3 =>
               /\ Cardinality(Range(surf)) >= 3
               /\ \A i \in Range(surf) : ~StrictlyInside(XYOf(i), CandXY)

\* a candidate strictly inside the hull was left out
C4_Witness ==
    /\ pc = "returned"
    /\ \E i \in CandSet : StrictlyInside(XYOf(i), CandXY) /\ i \notin Range(surf)

InvalidConfiguration ==
    \/ args.percentile < 0 \/ args.percentile > 100
    \/ args.ads_dist <= 0
    \/ args.dist_thr < 0
    \/ args.margin < 0

\* C1: in a batch run a slab with 3 or more candidates whose projection is
\* flat (collinear) is recovered: all candidates are returned with a warning
\* and main() goes on to the remaining entries.
C1_CollinearRecovered ==
    (/\ pc \in {"selected", "writing", "crashed"}
     /\ ~InvalidConfiguration
     /\ Cardinality(CandSet) >= 3
     /\ Flat(CandXY))
        => /\ pc # "crashed"
           /\ Range(surf) = CandSet
           /\ warned

FewCandidates == PercentileValid(args.percentile) /\ Cardinality(CandSet) < 3

\* C5: with fewer than 3 candidates the call does not fail and returns
\* exactly the candidates, and main() generates sites from them.
C5_FewCandidatesFallback ==
    /\ (pc \in {"selected", "writing"} /\ FewCandidates)
          => /\ Range(surf) = CandSet
             /\ Len(surf) = Cardinality(CandSet)
             /\ surf # <<>>
             /\ warned
    /\ (pc = "crashed" /\ PercentileValid(args.percentile)) => ~FewCandidates

\* sites were generated from fewer than 3 candidates of a larger slab
C5_Witness ==
    /\ pc = "writing"
    /\ FewCandidates
    /\ Len(surf) < Len(src.pos)
    /\ Len(sites) > 1

\* C6: an invalid configuration is refused: no sites are generated and
\* nothing is written.
C6_InvalidConfigurationRefused ==
    InvalidConfiguration => sites = <<>> /\ nout = 0

\* C9: assembling the sites one after another leaves the source slab as it
\* was, and every structure written is the source slab plus one adsorbate
\* atom at the site's position.
C9_AssemblyLeavesSource ==
    pc = "writing" =>
        /\ slab = src
        /\ Len(slab.pos) = Len(src.pos)
        /\ k > 1 =>
               /\ Len(out.pos) = Len(src.pos) + 1
               /\ out.pos = Append(src.pos, sites[k - 1].pos)
               /\ out.sym = Append(src.sym, args.adsorbate)
               /\ out.cell = src.cell /\ out.pbc = src.pbc

\* the third site of a slab has been assembled
C9_Witness == pc = "writing" /\ k > 3 /\ Len(src.pos) > 1

====
